---- MODULE Spec2Model ----
(***************************************************************************)
(* State-machine model of the mRMR-DEER pipeline:                          *)
(*   read_xvg, read_ndx, strip_filenames, pbc_center, pre_process          *)
(*   (gromacs_utils.py) and the entropy-caching block and mRMR call of     *)
(*   run_mRMR.py.  Each routine has its own specification (SpecXvg,        *)
(*   SpecNdx, SpecPbc, SpecMrmr, SpecRun); Spec is their union.            *)
(*                                                                         *)
(* Numbers: distances, times and cut-offs are integers in units of 0.1 nm  *)
(* (resp. 0.1 ps); float(element) is the identity on these values and      *)
(* int(x) truncates towards zero as Python's int() does.                   *)
(***************************************************************************)
EXTENDS Integers, Sequences, FiniteSets, TLC

VARIABLES
  \* ---- read_xvg ----
  xvgArgs,      \* the call's arguments
  xvgPc,        \* position in read_xvg: "idle","loop","read","done","raised"
  fileNo,       \* number of files of xvg_filenames the for loop has left behind
  lineNo,       \* number of lines readline() has returned from the open file
  traj_num,     \* the trajectory-index counter
  data,         \* the list of rows built so far
  xvgErr,       \* the exception read_xvg ended with ("none" when it did not)
  xvgRows       \* history: per opened file, the token lists of the lines that
                \* readline() returned and that start with neither '@' nor '#'

xvgVars == <<xvgArgs, xvgPc, fileNo, lineNo, traj_num, data, xvgErr, xvgRows>>

VARIABLES
  \* ---- read_ndx ----
  ndxPc,          \* position in read_ndx: "idle","read","returned","raised"
  index_dict,     \* group name -> list of the atom-id lists appended so far
  current_group,  \* the local current_group; "unbound" before its first assignment
  ndxErr,         \* the exception read_ndx ended with ("none" when it did not)
  ndxResult,      \* the returned dictionary (NoResult when nothing was returned)
  ndxLines,       \* history: the lines readline() returned
  numpyStrictAxis \* the build: whether np.concatenate rejects axis=1 for 1-D input

ndxVars == <<ndxPc, index_dict, current_group, ndxErr, ndxResult, ndxLines,
             numpyStrictAxis>>

VARIABLES
  \* ---- pbc_center / pre_process ----
  pbcArgs,     \* the call: entry point, xtcs, rewrite (tprs[i] and xvgs[i] are
               \* named by their position i)
  pbcPc,       \* "idle","begin","pbc","xvg","done"
  pbcI,        \* the loop variable i (1-based here)
  stripped,    \* the result of strip_filenames(xtcs)
  fsFiles,     \* the trajectory files that exist on disk
  cmdLog       \* the loop iterations made: tool, input xtc, tpr position,
               \* output, and whether the command was run or skipped

pbcVars == <<pbcArgs, pbcPc, pbcI, stripped, fsFiles, cmdLog>>

VARIABLES
  \* ---- run_mRMR.py and the mRMR selector ----
  runPc,          \* position in the script: "idle","start","entropy","call",
                  \* "done","failed"
  mat,            \* data: the discretized distance matrix (frames x pairs)
  entropyFile,    \* the entropy output file: whether it exists, the numbers in it
  fileAtStep,     \* history: the entropy file as the run found it at line 55
  entropy_matrix, \* the script's entropy vector
  mrmrCall,       \* the arguments mRMR was called with
  mrmrPc,         \* position in mRMR: "idle","select","returned","failed"
  mrmrRound,      \* number of selection rounds completed
  selected,       \* the selected-set, in selection order
  mrmrErr         \* the error mRMR failed with ("none" when it did not)

runVars == <<runPc, mat, entropyFile, fileAtStep, entropy_matrix>>
mrmrVars == <<mrmrCall, mrmrPc, mrmrRound, selected, mrmrErr>>

vars == <<xvgVars, ndxVars, pbcVars, runVars, mrmrVars>>

(***************************************************************************)
(* Bounds                                                                  *)
(***************************************************************************)
MaxFiles == 2
MaxLines == 2
MaxNdxLines == 4
NStems == 2
MaxXtcs == 2
NFrames == 2
NCols == 3
RunPairs == 2

(***************************************************************************)
(* Generic helpers                                                         *)
(***************************************************************************)
Abs(x) == IF x < 0 THEN -x ELSE x

\* Python's int(a / b) for b # 0: the quotient truncated towards zero.
TruncDiv(a, b) ==
  IF (a >= 0) = (b > 0) THEN Abs(a) \div Abs(b) ELSE -(Abs(a) \div Abs(b))

RECURSIVE Flatten(_)
Flatten(ss) == IF ss = <<>> THEN <<>> ELSE Head(ss) \o Flatten(Tail(ss))

RECURSIVE SumLens(_)
SumLens(ss) == IF ss = <<>> THEN 0 ELSE Len(Head(ss)) + SumLens(Tail(ss))

(***************************************************************************)
(* Idle values of read_ndx's state, for the specifications of the other    *)
(* routines                                                                *)
(***************************************************************************)
NoResult == "NoResult"
EmptyDict == [n \in {} |-> <<>>]

NdxIdle ==
  /\ ndxPc = "idle"
  /\ index_dict = EmptyDict
  /\ current_group = "unbound"
  /\ ndxErr = "none"
  /\ ndxResult = NoResult
  /\ ndxLines = <<>>
  /\ numpyStrictAxis = FALSE

PbcIdle ==
  /\ pbcArgs = [entry |-> "none", xtcs |-> <<>>, rewrite |-> FALSE]
  /\ pbcPc = "idle"
  /\ pbcI = 0
  /\ stripped = <<>>
  /\ fsFiles = {}
  /\ cmdLog = <<>>

NoFile == [exists |-> FALSE, values |-> <<>>]
\* restrict=None, as the empty pair.
NoRestrict == <<>>
NoCall == [mat |-> <<>>, weights |-> <<0, 0>>, restrict |-> NoRestrict, iters |-> 0,
           H |-> <<>>, bin_size |-> 0]

RunIdle ==
  /\ runPc = "idle"
  /\ mat = <<>>
  /\ entropyFile = NoFile
  /\ fileAtStep = NoFile
  /\ entropy_matrix = <<>>

MrmrIdle ==
  /\ mrmrCall = NoCall
  /\ mrmrPc = "idle"
  /\ mrmrRound = 0
  /\ selected = <<>>
  /\ mrmrErr = "none"

(***************************************************************************)
(* read_xvg                                                                *)
(***************************************************************************)
\* A line of an xvg file: its first character class and its tokens.
\* "@" and "#" lines are comments; a "d" line is "time d1 d2".
XvgLines ==
  { [first |-> "@", tokens |-> <<>>],
    [first |-> "#", tokens |-> <<>>],
    [first |-> "d", tokens |-> <<0, 1, 3>>],
    [first |-> "d", tokens |-> <<1, 3, 1>>] }

BinSizes == {-2, 0, 2}
Contacts == {-2, 0, 2}

\* given = FALSE stands for a call whose xvg_filenames is None; the other
\* arguments then keep the defaults of the signature.
XvgArgSets ==
  [ given : {TRUE}, nFiles : 0..MaxFiles, bin_size : BinSizes,
    contact : Contacts, one_traj : BOOLEAN, skip_time : BOOLEAN ]
  \cup
  { [ given |-> FALSE, nFiles |-> 0, bin_size |-> 0, contact |-> 0,
      one_traj |-> TRUE, skip_time |-> TRUE ] }

\* newline[0] not in ['@', '#']
IsCommentOnlyHash(line) == line.first = "#"
IsComment(line) == line.first \in {"@", "#"}

\* The body of "for element in newline.split()" for one element: what is
\* appended to temp_vec.
ElementContactFirst(element, col_num, bin_size, contact, skip_time) ==
  IF contact # 0
    THEN IF col_num > 0 THEN << IF element > contact THEN 1 ELSE 0 >>
         ELSE IF ~skip_time THEN <<element>> ELSE <<>>
    ELSE IF bin_size # 0
      THEN IF col_num > 0 THEN <<TruncDiv(element, bin_size)>>
           ELSE IF ~skip_time THEN <<element>> ELSE <<>>
      ELSE IF col_num > 0 THEN <<element>>
           ELSE IF ~skip_time THEN <<element>> ELSE <<>>
Element(element, col_num, bin_size, contact, skip_time) ==
  IF bin_size # 0
    THEN IF col_num > 0 THEN <<TruncDiv(element, bin_size)>>
         ELSE IF ~skip_time THEN <<element>> ELSE <<>>
    ELSE IF contact # 0
      THEN IF col_num > 0 THEN << IF element > contact THEN 1 ELSE 0 >>
           ELSE IF ~skip_time THEN <<element>> ELSE <<>>
      ELSE IF col_num > 0 THEN <<element>>
           ELSE IF ~skip_time THEN <<element>> ELSE <<>>

\* The for loop over the elements of one line, from column col_num on.
RECURSIVE ParseElements(_, _, _, _)
ParseElements(tokens, col_num, temp_vec, a) ==
  IF tokens = <<>> THEN temp_vec
  ELSE ParseElements(Tail(tokens), col_num + 1,
         temp_vec \o Element(Head(tokens), col_num, a.bin_size, a.contact,
                             a.skip_time), a)

\* temp_vec as initialised for a row.
RowStart(a, t) == IF a.one_traj THEN <<>> ELSE <<t>>

XvgIdle ==
  /\ xvgArgs = [ given |-> FALSE, nFiles |-> 0, bin_size |-> 0, contact |-> 0,
                 one_traj |-> TRUE, skip_time |-> TRUE ]
  /\ xvgPc = "idle"
  /\ fileNo = 0
  /\ lineNo = 0
  /\ traj_num = 0
  /\ data = <<>>
  /\ xvgErr = "none"
  /\ xvgRows = <<>>

XvgInit ==
  /\ xvgArgs \in XvgArgSets
  /\ xvgPc = "loop"
  /\ fileNo = 0
  /\ lineNo = 0
  /\ traj_num = 0
  /\ data = <<>>
  /\ xvgErr = "none"
  /\ xvgRows = <<>>

\* "for xvg_filename in xvg_filenames" over a missing (None) argument.
XvgIterNone ==
  /\ xvgPc = "loop"
  /\ ~xvgArgs.given
  /\ xvgPc' = "raised"
  /\ xvgErr' = "TypeError"
  /\ UNCHANGED <<xvgArgs, fileNo, lineNo, traj_num, data, xvgRows>>
  /\ UNCHANGED <<ndxVars, pbcVars, runVars, mrmrVars>>

\* The for loop takes the next file name and opens the file.
XvgOpen ==
  /\ xvgPc = "loop"
  /\ xvgArgs.given
  /\ fileNo < xvgArgs.nFiles
  /\ xvgPc' = "read"
  /\ lineNo' = 0
  /\ xvgRows' = Append(xvgRows, <<>>)
  /\ UNCHANGED <<xvgArgs, fileNo, traj_num, data, xvgErr>>
  /\ UNCHANGED <<ndxVars, pbcVars, runVars, mrmrVars>>

\* readline() returns a line: a comment is skipped, any other line becomes a row.
XvgReadLine(line) ==
  /\ xvgPc = "read"
  /\ lineNo < MaxLines
  /\ lineNo' = lineNo + 1
  /\ xvgRows' = IF line.first \in {"@", "#"} THEN xvgRows
                ELSE [xvgRows EXCEPT ![Len(xvgRows)] = Append(@, line.tokens)]
  /\ data' = IF IsComment(line) THEN data
             ELSE Append(data, ParseElements(line.tokens, 0,
                                             RowStart(xvgArgs, traj_num), xvgArgs))
  /\ UNCHANGED <<xvgArgs, xvgPc, fileNo, traj_num, xvgErr>>
  /\ UNCHANGED <<ndxVars, pbcVars, runVars, mrmrVars>>

\* readline() returns '': the while loop breaks and the counter moves on.
XvgEofSkipEmpty ==
  /\ xvgPc = "read"
  /\ traj_num' = IF xvgRows[Len(xvgRows)] = <<>> THEN traj_num ELSE traj_num + 1
  /\ fileNo' = fileNo + 1
  /\ xvgPc' = "loop"
  /\ UNCHANGED <<xvgArgs, lineNo, data, xvgErr, xvgRows>>
  /\ UNCHANGED <<ndxVars, pbcVars, runVars, mrmrVars>>
XvgEof ==
  /\ xvgPc = "read"
  /\ traj_num' = traj_num + 1
  /\ fileNo' = fileNo + 1
  /\ xvgPc' = "loop"
  /\ UNCHANGED <<xvgArgs, lineNo, data, xvgErr, xvgRows>>
  /\ UNCHANGED <<ndxVars, pbcVars, runVars, mrmrVars>>

\* The for loop is exhausted: return np.array(data).
XvgReturn ==
  /\ xvgPc = "loop"
  /\ xvgArgs.given
  /\ fileNo = xvgArgs.nFiles
  /\ xvgPc' = "done"
  /\ UNCHANGED <<xvgArgs, fileNo, lineNo, traj_num, data, xvgErr, xvgRows>>
  /\ UNCHANGED <<ndxVars, pbcVars, runVars, mrmrVars>>

XvgNext ==
  \/ XvgIterNone
  \/ XvgOpen
  \/ \E line \in XvgLines : XvgReadLine(line)
  \/ XvgEof
  \/ XvgReturn

XvgStart ==
  /\ XvgInit
  /\ NdxIdle
  /\ PbcIdle
  /\ RunIdle
  /\ MrmrIdle

SpecXvg == XvgStart /\ [][XvgNext]_vars

(***************************************************************************)
(* read_xvg: properties                                                    *)
(***************************************************************************)
\* The distance tokens of a line (all tokens after the first).
DistTokens(tokens) == IF tokens = <<>> THEN <<>> ELSE Tail(tokens)

\* The distance columns of a result row: what follows the bookkeeping columns.
DistPart(row, tokens) ==
  SubSeq(row, Len(row) - Len(DistTokens(tokens)) + 1, Len(row))

\* A discretization mode applied to one distance value.
ApplyMode(mode, v, a) ==
  CASE mode = "binned"  -> TruncDiv(v, a.bin_size)
    [] mode = "contact" -> IF v > a.contact THEN 1 ELSE 0
    [] OTHER            -> v

ModesOf(a) == {"raw", "contact"} \cup (IF a.bin_size # 0 THEN {"binned"} ELSE {})

Transformed(mode, tokens, a) ==
  [i \in 1..Len(DistTokens(tokens)) |-> ApplyMode(mode, DistTokens(tokens)[i], a)]

\* For every row position, the zero-based position of the file it came from.
RECURSIVE FileIndexOfRows(_, _)
FileIndexOfRows(rows, f) ==
  IF rows = <<>> THEN <<>>
  ELSE [i \in 1..Len(Head(rows)) |-> f] \o FileIndexOfRows(Tail(rows), f + 1)

XvgRunning == xvgPc \in {"loop", "read", "done"}

\* C1: the result holds one row per non-comment line, in input-file order and,
\* within a file, in line order: row p carries the distances of the p-th
\* non-comment line (under one of the discretization modes), and the number of
\* rows is the sum of the per-file non-comment line counts.
C1_RowsConcatenatedInOrder ==
  XvgRunning =>
    LET flat == Flatten(xvgRows) IN
    /\ Len(data) = SumLens(xvgRows)
    /\ \A p \in 1..Len(data) :
         \E m \in ModesOf(xvgArgs) :
           DistPart(data[p], flat[p]) = Transformed(m, flat[p], xvgArgs)

C1_Witness ==
  /\ xvgPc = "done"
  /\ xvgArgs.one_traj
  /\ Len(xvgRows) = 2
  /\ Len(xvgRows[1]) = 2
  /\ xvgRows[1][1] # xvgRows[1][2]
  /\ Len(xvgRows[2]) = 1
  /\ lineNo = 2
  /\ Len(data) = 3

\* C2: traj_num starts at 0 and has been incremented exactly once per file
\* read to its end, whatever the file held; without one_traj the first column
\* of every row is the zero-based position of the row's file.
C2_TrajIndexPerFile ==
  XvgRunning =>
    LET fileOf == FileIndexOfRows(xvgRows, 0) IN
    /\ traj_num = fileNo
    /\ ~xvgArgs.one_traj =>
         \A p \in 1..Len(data) :
           /\ data[p] # <<>>
           /\ data[p][1] = fileOf[p]

C2_Witness ==
  /\ xvgPc = "done"
  /\ ~xvgArgs.one_traj
  /\ Len(xvgRows) = 2
  /\ xvgRows[1] = <<>>
  /\ Len(xvgRows[2]) = 1
  /\ data[1][1] = 1

\* The mode read_xvg resolves: bin_size # 0 selects binned, otherwise
\* contact # 0 selects contact, otherwise raw.
ResolvedMode(a) ==
  IF a.bin_size # 0 THEN "binned" ELSE IF a.contact # 0 THEN "contact" ELSE "raw"

\* The precedence as the claim states it, with > 0 tests.
ClaimedMode(a) ==
  IF a.bin_size > 0 THEN "binned" ELSE IF a.contact > 0 THEN "contact" ELSE "raw"

\* C3 (amended): one mode per call, resolved as bin_size # 0 -> binned, else
\* contact # 0 -> contact, else raw; every distance token of every row is
\* transformed by that mode only.
C3_OneModeByNonZero ==
  XvgRunning =>
    LET flat == Flatten(xvgRows) IN
    \A p \in 1..Len(data) :
      DistPart(data[p], flat[p]) = Transformed(ResolvedMode(xvgArgs), flat[p], xvgArgs)

C3_Witness ==
  /\ xvgPc = "done"
  /\ xvgArgs.bin_size < 0
  /\ xvgArgs.contact > 0
  /\ Len(data) >= 2
  /\ data[1] # data[2]

\* C3 (as claimed): the mode is resolved with bin_size > 0 and contact > 0.
C3_OneModeByPositive ==
  XvgRunning =>
    LET flat == Flatten(xvgRows) IN
    \A p \in 1..Len(data) :
      DistPart(data[p], flat[p]) = Transformed(ClaimedMode(xvgArgs), flat[p], xvgArgs)

\* C6 (as claimed): a call with a missing or an empty file list fails.
C6_EmptyListFails ==
  (xvgPc \in {"done", "raised"} /\ (~xvgArgs.given \/ xvgArgs.nFiles = 0))
    => (xvgPc = "raised" /\ xvgErr # "none")

(***************************************************************************)
(* read_ndx                                                                *)
(***************************************************************************)
GroupNames == {"A", "B"}
AtomLists == { <<1>>, <<2, 3>> }

\* A line of an index file by what newline.split() gives: nothing (blank),
\* '[' name ']' (a header), or atom-id tokens.
NdxFileLines ==
  { [kind |-> "blank"] }
  \cup { [kind |-> "header", name |-> n] : n \in GroupNames }
  \cup { [kind |-> "atoms", ids |-> a] : a \in AtomLists }

\* index_dict[key] = value
DictPut(d, key, value) ==
  [k \in (DOMAIN d) \cup {key} |-> IF k = key THEN value ELSE d[k]]

NdxInit ==
  /\ ndxPc = "read"
  /\ index_dict = EmptyDict
  /\ current_group = "unbound"
  /\ ndxErr = "none"
  /\ ndxResult = NoResult
  /\ ndxLines = <<>>
  /\ numpyStrictAxis \in BOOLEAN

\* readline() returns a line for which split_line is empty.
NdxReadBlank ==
  /\ ndxPc = "read"
  /\ Len(ndxLines) < MaxNdxLines
  /\ ndxLines' = Append(ndxLines, [kind |-> "blank"])
  /\ UNCHANGED <<ndxPc, index_dict, current_group, ndxErr, ndxResult,
                 numpyStrictAxis>>
  /\ UNCHANGED <<xvgVars, pbcVars, runVars, mrmrVars>>

\* split_line[0] == '[': a new group starts with an empty list.
NdxReadHeader(name) ==
  /\ ndxPc = "read"
  /\ Len(ndxLines) < MaxNdxLines
  /\ ndxLines' = Append(ndxLines, [kind |-> "header", name |-> name])
  /\ current_group' = name
  /\ index_dict' = DictPut(index_dict, name, <<>>)
  /\ UNCHANGED <<ndxPc, ndxErr, ndxResult, numpyStrictAxis>>
  /\ UNCHANGED <<xvgVars, pbcVars, runVars, mrmrVars>>

\* Any other line: index_dict[current_group].append([int(i) ...]); reading
\* current_group before its first assignment raises UnboundLocalError.
NdxReadAtomsSkipOrphan(ids) ==
  /\ ndxPc = "read"
  /\ Len(ndxLines) < MaxNdxLines
  /\ ndxLines' = Append(ndxLines, [kind |-> "atoms", ids |-> ids])
  /\ index_dict' = IF current_group = "unbound" THEN index_dict
                   ELSE DictPut(index_dict, current_group,
                                Append(index_dict[current_group], ids))
  /\ UNCHANGED <<ndxPc, current_group, ndxErr, ndxResult, numpyStrictAxis>>
  /\ UNCHANGED <<xvgVars, pbcVars, runVars, mrmrVars>>
NdxReadAtoms(ids) ==
  /\ ndxPc = "read"
  /\ Len(ndxLines) < MaxNdxLines
  /\ ndxLines' = Append(ndxLines, [kind |-> "atoms", ids |-> ids])
  /\ IF current_group = "unbound"
       THEN /\ ndxPc' = "raised"
            /\ ndxErr' = "UnboundLocalError"
            /\ UNCHANGED index_dict
       ELSE /\ index_dict' = DictPut(index_dict, current_group,
                                     Append(index_dict[current_group], ids))
            /\ UNCHANGED <<ndxPc, ndxErr>>
  /\ UNCHANGED <<current_group, ndxResult, numpyStrictAxis>>
  /\ UNCHANGED <<xvgVars, pbcVars, runVars, mrmrVars>>

\* What np.concatenate(index_dict[key], axis=1) raises for a key: ValueError
\* for an empty list ("need at least one array to concatenate"); for 1-D
\* lists, axis=1 is out of bounds: a build whose numpy rejects it raises
\* AxisError, an older numpy only warns and concatenates along axis 0.
ConcatError(d, key, strict) ==
  IF d[key] = <<>> THEN "ValueError"
  ELSE IF strict THEN "AxisError" ELSE "none"

\* readline() returns '' and the concatenation loop raises at some key (the
\* first failing key in the dictionary's iteration order).
NdxEofRaise ==
  /\ ndxPc = "read"
  /\ \E key \in DOMAIN index_dict :
       /\ ConcatError(index_dict, key, numpyStrictAxis) # "none"
       /\ ndxErr' = ConcatError(index_dict, key, numpyStrictAxis)
  /\ ndxPc' = "raised"
  /\ UNCHANGED <<index_dict, current_group, ndxResult, ndxLines, numpyStrictAxis>>
  /\ UNCHANGED <<xvgVars, pbcVars, runVars, mrmrVars>>

\* readline() returns '', every group's lists are concatenated and the
\* dictionary is returned.
NdxEofReturn ==
  /\ ndxPc = "read"
  /\ \A key \in DOMAIN index_dict :
       ConcatError(index_dict, key, numpyStrictAxis) = "none"
  /\ index_dict' = [key \in DOMAIN index_dict |-> Flatten(index_dict[key])]
  /\ ndxResult' = index_dict'
  /\ ndxPc' = "returned"
  /\ UNCHANGED <<current_group, ndxErr, ndxLines, numpyStrictAxis>>
  /\ UNCHANGED <<xvgVars, pbcVars, runVars, mrmrVars>>

NdxNext ==
  \/ NdxReadBlank
  \/ \E name \in GroupNames : NdxReadHeader(name)
  \/ \E ids \in AtomLists : NdxReadAtoms(ids)
  \/ NdxEofRaise
  \/ NdxEofReturn

NdxStart ==
  /\ NdxInit
  /\ XvgIdle
  /\ PbcIdle
  /\ RunIdle
  /\ MrmrIdle

SpecNdx == NdxStart /\ [][NdxNext]_vars

(***************************************************************************)
(* read_ndx: properties                                                    *)
(***************************************************************************)
NonBlank(lines) == {i \in 1..Len(lines) : lines[i].kind # "blank"}

FirstNonBlank(lines) == CHOOSE i \in NonBlank(lines) : \A j \in NonBlank(lines) : i <= j

\* An atom-id line comes before any group header.
OrphanAtomLine(lines) ==
  /\ NonBlank(lines) # {}
  /\ lines[FirstNonBlank(lines)].kind = "atoms"

StartsWithHeader(lines) ==
  /\ NonBlank(lines) # {}
  /\ lines[FirstNonBlank(lines)].kind = "header"

Headers(lines) == {i \in 1..Len(lines) : lines[i].kind = "header"}

\* The atom ids on the lines after header i up to the next header, flattened.
RECURSIVE AtomsFrom(_, _)
AtomsFrom(lines, i) ==
  IF i > Len(lines) \/ lines[i].kind = "header" THEN <<>>
  ELSE (IF lines[i].kind = "atoms" THEN lines[i].ids ELSE <<>>)
         \o AtomsFrom(lines, i + 1)

\* The last header naming group n.
LastHeader(lines, n) ==
  CHOOSE i \in Headers(lines) :
    /\ lines[i].name = n
    /\ \A j \in Headers(lines) : lines[j].name = n => j <= i

\* C4: once an atom-id line has been read before any group header, read_ndx
\* has failed (the interpreter's UnboundLocalError for current_group is this
\* code's parse failure) and no mapping, partial or not, is returned.
C4_OrphanAtomLineFails ==
  OrphanAtomLine(ndxLines) =>
    /\ ndxPc = "raised"
    /\ ndxErr = "UnboundLocalError"
    /\ ndxResult = NoResult

C4_Witness ==
  /\ ndxPc = "raised"
  /\ Len(ndxLines) = 2
  /\ ndxLines[1].kind = "blank"
  /\ ndxLines[2].kind = "atoms"
  /\ ndxResult = NoResult

\* C5 (as claimed): for a file whose first non-blank line is a header,
\* read_ndx returns a mapping whose keys are the group names of the headers,
\* each mapped to the flat list of the atom ids between the group's header
\* (its last one, when the name occurs in several) and the next header.
C5_GroupsFlattened ==
  (ndxPc \in {"returned", "raised"} /\ StartsWithHeader(ndxLines)) =>
    /\ ndxPc = "returned"
    /\ DOMAIN ndxResult = {ndxLines[i].name : i \in Headers(ndxLines)}
    /\ \A n \in DOMAIN ndxResult :
         ndxResult[n] = AtomsFrom(ndxLines, LastHeader(ndxLines, n) + 1)

(***************************************************************************)
(* strip_filenames, pbc_center, pre_process                                *)
(*                                                                         *)
(* A trajectory file name "<stem><tag>.xtc" is the record [stem, tag];     *)
(* stems are numbered in their lexicographic order.                        *)
(***************************************************************************)
Stems == 1..NStems
Tags == {"", "_cntr", "_whole"}
XtcNames == [stem : Stems, tag : Tags]

\* The elements of a set of numbers as an ascending sequence.
RECURSIVE SortedSeq(_)
SortedSeq(S) ==
  IF S = {} THEN <<>>
  ELSE LET m == CHOOSE x \in S : \A y \in S : x <= y
       IN <<m>> \o SortedSeq(S \ {m})

\* strip_filenames: '_cntr' / '_whole' and the extension are removed from
\* each name, and np.unique returns the distinct results, sorted.
strip_filenames(filenames) ==
  SortedSeq({filenames[i].stem : i \in 1..Len(filenames)})

XtcLists == UNION { [1..n -> XtcNames] : n \in 1..MaxXtcs }

\* The intermediate files a previous run may have left.
LeftOvers ==
  { {},
    { [stem |-> st, tag |-> "_whole"] : st \in Stems },
    { [stem |-> st, tag |-> tg] : st \in Stems, tg \in {"_whole", "_cntr"} } }

PbcInit ==
  /\ pbcArgs \in [entry : {"pbc_center", "pre_process"}, xtcs : XtcLists,
                  rewrite : BOOLEAN]
  /\ pbcPc = "begin"
  /\ pbcI = 0
  /\ stripped = <<>>
  /\ \E left \in LeftOvers :
       fsFiles = left \cup {pbcArgs.xtcs[i] : i \in 1..Len(pbcArgs.xtcs)}
  /\ cmdLog = <<>>

\* The rewrite flag pbc_center runs with: pre_process calls it without one.
PbcRewrite == IF pbcArgs.entry = "pbc_center" THEN pbcArgs.rewrite ELSE FALSE

\* make_ndx, then stripped = strip_filenames(xtcs), n_files = len(orig_xtcs).
PbcBegin ==
  /\ pbcPc = "begin"
  /\ stripped' = strip_filenames(pbcArgs.xtcs)
  /\ pbcI' = 1
  /\ pbcPc' = "pbc"
  /\ UNCHANGED <<pbcArgs, fsFiles, cmdLog>>
  /\ UNCHANGED <<xvgVars, ndxVars, runVars, mrmrVars>>

\* One iteration of pbc_center's loop: trjconv -pbc whole on orig_xtcs[i]
\* with tprs[i], then trjconv -center on the result with tprs[i]; each is
\* skipped when its output exists and rewrite is off.  gmx writes its output
\* when its input file exists.
PbcIter ==
  /\ pbcPc = "pbc"
  /\ pbcI <= Len(stripped)
  /\ LET orig  == [stem |-> stripped[pbcI], tag |-> ""]
         whole == [stem |-> stripped[pbcI], tag |-> "_whole"]
         cntr  == [stem |-> stripped[pbcI], tag |-> "_cntr"]
         runW  == ~(whole \in fsFiles /\ ~PbcRewrite)
         fs1   == IF runW /\ orig \in fsFiles THEN fsFiles \cup {whole} ELSE fsFiles
         runC  == ~(cntr \in fs1 /\ ~PbcRewrite)
         fs2   == IF runC /\ whole \in fs1 THEN fs1 \cup {cntr} ELSE fs1
     IN /\ fsFiles' = fs2
        /\ cmdLog' = cmdLog \o
             << [tool |-> "whole", xtc |-> orig, tpr |-> pbcI, ran |-> runW],
                [tool |-> "center", xtc |-> whole, tpr |-> pbcI, ran |-> runC] >>
  /\ pbcI' = pbcI + 1
  /\ UNCHANGED <<pbcArgs, pbcPc, stripped>>
  /\ UNCHANGED <<xvgVars, ndxVars, runVars, mrmrVars>>

\* pbc_center's loop is over.  pbc_center returns; pre_process goes on with
\* cntrd_xtcs = [strip + '_cntr.xtc' for strip in strip_filenames(xtcs)].
PbcLoopEnd ==
  /\ pbcPc = "pbc"
  /\ pbcI > Len(stripped)
  /\ IF pbcArgs.entry = "pre_process"
       THEN /\ pbcPc' = "xvg"
            /\ pbcI' = 1
            /\ stripped' = strip_filenames(pbcArgs.xtcs)
       ELSE /\ pbcPc' = "done"
            /\ UNCHANGED <<pbcI, stripped>>
  /\ UNCHANGED <<pbcArgs, fsFiles, cmdLog>>
  /\ UNCHANGED <<xvgVars, ndxVars, runVars, mrmrVars>>

\* One iteration of pre_process's loop: make_xvg(tprs[i], cntrd_xtcs[i],
\* xvgs[i]), i.e. gmx pairdist unless xvgs[i] exists and rewrite is off.
PreXvgIter ==
  /\ pbcPc = "xvg"
  /\ pbcI <= Len(stripped)
  /\ LET cntr == [stem |-> stripped[pbcI], tag |-> "_cntr"]
         out  == [xvg |-> pbcI]
         run  == pbcArgs.rewrite \/ out \notin fsFiles
     IN /\ fsFiles' = IF run /\ cntr \in fsFiles THEN fsFiles \cup {out} ELSE fsFiles
        /\ cmdLog' = Append(cmdLog,
             [tool |-> "pairdist", xtc |-> cntr, tpr |-> pbcI, ran |-> run])
  /\ pbcI' = pbcI + 1
  /\ UNCHANGED <<pbcArgs, pbcPc, stripped>>
  /\ UNCHANGED <<xvgVars, ndxVars, runVars, mrmrVars>>

PreXvgLoopEnd ==
  /\ pbcPc = "xvg"
  /\ pbcI > Len(stripped)
  /\ pbcPc' = "done"
  /\ UNCHANGED <<pbcArgs, pbcI, stripped, fsFiles, cmdLog>>
  /\ UNCHANGED <<xvgVars, ndxVars, runVars, mrmrVars>>

PbcNext ==
  \/ PbcBegin
  \/ PbcIter
  \/ PbcLoopEnd
  \/ PreXvgIter
  \/ PreXvgLoopEnd

PbcStart ==
  /\ PbcInit
  /\ XvgIdle
  /\ NdxIdle
  /\ RunIdle
  /\ MrmrIdle

SpecPbc == PbcStart /\ [][PbcNext]_vars

(***************************************************************************)
(* pbc_center / pre_process: properties                                    *)
(***************************************************************************)
\* Position i of the handled trajectory files is the caller's i-th xtc.
HandledWith(tool, i) ==
  \E k \in 1..Len(cmdLog) :
    /\ cmdLog[k].tool = tool
    /\ cmdLog[k].tpr = i
    /\ cmdLog[k].xtc.stem = pbcArgs.xtcs[i].stem

\* C10 (as claimed): for every position i of the caller's xtc list, the xtc
\* given at position i is made whole and centred with tprs[i] and, in
\* pre_process, its distances are written with tprs[i] to xvgs[i].
C10_PairedByPosition ==
  pbcPc = "done" =>
    \A i \in 1..Len(pbcArgs.xtcs) :
      /\ HandledWith("whole", i)
      /\ HandledWith("center", i)
      /\ pbcArgs.entry = "pre_process" => HandledWith("pairdist", i)

(***************************************************************************)
(* Entropy and mutual information (module mRMR, spec sections 4.3, 4.4)    *)
(*                                                                         *)
(* Entropies are in bits, as integers in units of 1e-6 bit.                *)
(***************************************************************************)
\* log2(c) in units of 1e-6, for the counts a column of the model can hold.
Log2Scaled(c) ==
  CASE c = 1 -> 0
    [] c = 2 -> 1000000
    [] c = 3 -> 1584963
    [] c = 4 -> 2000000
    [] c = 5 -> 2321928
    [] c = 6 -> 2584963
    [] c = 7 -> 2807355
    [] c = 8 -> 3000000

RECURSIVE SumOver(_, _)
SumOver(S, f) ==
  IF S = {} THEN 0
  ELSE LET x == CHOOSE y \in S : TRUE IN f[x] + SumOver(S \ {x}, f)

\* Shannon entropy of a sequence of discrete values:
\* -sum_v p_v log2 p_v = log2 N - (1/N) sum_v c_v log2 c_v.
entropy(seq) ==
  LET N == Len(seq)
      values == {seq[i] : i \in 1..N}
      weight == [v \in values |->
                   LET c == Cardinality({i \in 1..N : seq[i] = v})
                   IN c * Log2Scaled(c)]
  IN IF N = 0 THEN 0 ELSE (N * Log2Scaled(N) - SumOver(values, weight)) \div N

Column(m, j) == [f \in 1..Len(m) |-> m[f][j]]

\* n_samples, n_pairs = data.shape
n_pairs(m) == IF m = <<>> THEN 0 ELSE Len(m[1])

\* Joint entropy of two columns: each pair (x_i, y_i) is one symbol.
JointEntropy(m, j, k) == entropy([f \in 1..Len(m) |-> <<m[f][j], m[f][k]>>])

\* I(j;k) = H[j] + H[k] - H(j,k), with the supplied marginal entropies.
mutual_information(m, H, j, k) == H[j] + H[k] - JointEntropy(m, j, k)

(***************************************************************************)
(* The mRMR selector (module mRMR, spec section 4.5)                       *)
(***************************************************************************)
\* I / H[k] in units of 1e-6 (computed on the leading digits, within the
\* integer range); a constant selected column (H[k] = 0, hence I = 0)
\* contributes nothing.
Quotient(i, h) ==
  IF h \div 10000 = 0 THEN 0 ELSE ((i \div 1000) * 100000) \div (h \div 10000)

\* 4.5a: some frame's re-derived raw distance bin_id * bin_size lies in [lo, hi].
Eligible(c, j) ==
  \/ c.restrict = NoRestrict
  \/ \E f \in 1..Len(c.mat) :
       /\ c.restrict[1] <= c.mat[f][j] * c.bin_size
       /\ c.mat[f][j] * c.bin_size <= c.restrict[2]

InSeq(x, sq) == \E i \in 1..Len(sq) : sq[i] = x

\* The candidates of a round: unselected, restriction-passing columns.
CandidatesWithSelected(c, sel) == {j \in 1..n_pairs(c.mat) : Eligible(c, j)}
Candidates(c, sel) ==
  {j \in 1..n_pairs(c.mat) : ~InSeq(j, sel) /\ Eligible(c, j)}

\* score(j) = H[j] - w_MID * mean_k I(j,k) - w_MIQ * mean_k (I(j,k) / H[k]),
\* multiplied by the number of selected columns (1 when none is selected).
Score(c, sel, j) ==
  LET n == Len(sel)
      mid == [i \in 1..n |-> mutual_information(c.mat, c.H, j, sel[i])]
      miq == [i \in 1..n |-> Quotient(mid[i], c.H[sel[i]])]
  IN IF n = 0 THEN c.H[j]
     ELSE n * c.H[j] - c.weights[1] * SumOver(1..n, mid)
                     - c.weights[2] * SumOver(1..n, miq)

\* The candidate of maximum score, the lowest column among equals.
Best(c, sel) ==
  LET cands == Candidates(c, sel)
      score == [j \in cands |-> Score(c, sel, j)]
  IN CHOOSE j \in cands :
       \A k \in cands :
         \/ score[k] < score[j]
         \/ (score[k] = score[j] /\ j <= k)

BinIds == {0, 1}
Matrices == [1..NFrames -> [1..NCols -> BinIds]]
ComputeEntropies(m) == [i \in 1..n_pairs(m) |-> entropy(Column(m, i))]

MrmrCalls ==
  { [mat |-> m, weights |-> w, restrict |-> r, iters |-> n,
     H |-> ComputeEntropies(m), bin_size |-> 2] :
      m \in Matrices, w \in {<<1, 0>>, <<0, 1>>}, r \in {NoRestrict, <<2, 3>>},
      n \in 0..(NCols + 1) }

MrmrInit ==
  /\ mrmrCall \in MrmrCalls
  /\ mrmrPc = "select"
  /\ mrmrRound = 0
  /\ selected = <<>>
  /\ mrmrErr = "none"

\* One round: the best candidate is appended to the selected-set.
MrmrRound ==
  /\ mrmrPc = "select"
  /\ mrmrRound < mrmrCall.iters
  /\ Candidates(mrmrCall, selected) # {}
  /\ selected' = Append(selected, Best(mrmrCall, selected))
  /\ mrmrRound' = mrmrRound + 1
  /\ UNCHANGED <<mrmrCall, mrmrPc, mrmrErr>>
  /\ UNCHANGED <<xvgVars, ndxVars, pbcVars, runVars>>

\* A round finds no candidate: the selector fails.
MrmrTruncate ==
  /\ mrmrPc = "select"
  /\ mrmrRound < mrmrCall.iters
  /\ Candidates(mrmrCall, selected) = {}
  /\ mrmrPc' = "returned"
  /\ UNCHANGED <<mrmrCall, mrmrRound, selected, mrmrErr>>
  /\ UNCHANGED <<xvgVars, ndxVars, pbcVars, runVars>>
MrmrFail ==
  /\ mrmrPc = "select"
  /\ mrmrRound < mrmrCall.iters
  /\ Candidates(mrmrCall, selected) = {}
  /\ mrmrPc' = "failed"
  /\ mrmrErr' = "InsufficientCandidatesError"
  /\ UNCHANGED <<mrmrCall, mrmrRound, selected>>
  /\ UNCHANGED <<xvgVars, ndxVars, pbcVars, runVars>>

\* After iters rounds the ordered list of selected columns is returned.
MrmrReturn ==
  /\ mrmrPc = "select"
  /\ mrmrRound = mrmrCall.iters
  /\ mrmrPc' = "returned"
  /\ UNCHANGED <<mrmrCall, mrmrRound, selected, mrmrErr>>
  /\ UNCHANGED <<xvgVars, ndxVars, pbcVars, runVars>>

MrmrNext ==
  \/ MrmrRound
  \/ MrmrFail
  \/ MrmrReturn

MrmrStart ==
  /\ MrmrInit
  /\ XvgIdle
  /\ NdxIdle
  /\ PbcIdle
  /\ RunIdle

SpecMrmr == MrmrStart /\ [][MrmrNext]_vars

(***************************************************************************)
(* mRMR selector: properties                                               *)
(***************************************************************************)
NoDuplicates(sq) == \A i, j \in 1..Len(sq) : sq[i] = sq[j] => i = j

IsPrefix(a, b) == Len(a) <= Len(b) /\ SubSeq(b, 1, Len(a)) = a

\* C7: in every state of a selection run the selected-set holds no column
\* twice and, after r rounds, exactly r columns; a step either leaves it
\* alone or appends one column to it (nothing is removed or reordered).
C7_SelectedSetGrowsByOne ==
  /\ [](mrmrPc # "idle" => /\ NoDuplicates(selected)
                            /\ Len(selected) = mrmrRound
                            /\ \A i \in 1..Len(selected) :
                                 selected[i] \in 1..n_pairs(mrmrCall.mat))
  /\ [][/\ IsPrefix(selected, selected')
        /\ Len(selected') <= Len(selected) + 1
        /\ (mrmrRound' # mrmrRound => Len(selected') = Len(selected) + 1)]_vars

C7_Witness ==
  /\ mrmrPc = "returned"
  /\ Len(selected) = NCols
  /\ mrmrCall.weights = <<1, 0>>
  /\ selected[1] > selected[2]

\* C8: a round that finds no unselected, restriction-passing column ends the
\* selector with an InsufficientCandidatesError; a list is returned only
\* after iters rounds and then holds iters columns.
C8_ExhaustedFails ==
  /\ [](mrmrPc = "returned" => Len(selected) = mrmrCall.iters)
  /\ [](mrmrPc = "failed" => /\ mrmrErr = "InsufficientCandidatesError"
                             /\ Len(selected) < mrmrCall.iters)
  /\ [][(/\ mrmrPc = "select"
         /\ mrmrRound < mrmrCall.iters
         /\ Candidates(mrmrCall, selected) = {})
        => (mrmrPc' = "failed" /\ mrmrErr' = "InsufficientCandidatesError")]_vars

C8_Witness ==
  /\ mrmrPc = "failed"
  /\ mrmrCall.restrict # NoRestrict
  /\ mrmrCall.iters <= NCols
  /\ Len(selected) = 1

(***************************************************************************)
(* run_mRMR.py: the entropy step and the call of mRMR, over repeated runs  *)
(* of the script in one working directory                                  *)
(***************************************************************************)
\* '%g': six significant digits (values of 1 bit and more keep five decimals).
FormatG(v) == IF v >= 1000000 THEN ((v + 5) \div 10) * 10 ELSE v

\* np.savetxt(entropy_name, entropy_matrix, fmt='%g'): the numbers in the file.
savetxt(v) == [exists |-> TRUE, values |-> [i \in 1..Len(v) |-> FormatG(v[i])]]

\* np.loadtxt(entropy_name): the numbers read back from the text.
loadtxt(f) == f.values

\* The whole selection, as the rounds of the selector make it.
RECURSIVE MrmrRun(_, _)
MrmrRun(c, sel) ==
  IF Len(sel) = c.iters
    THEN [pc |-> "returned", selected |-> sel, err |-> "none"]
  ELSE IF Candidates(c, sel) = {}
    THEN [pc |-> "failed", selected |-> sel, err |-> "InsufficientCandidatesError"]
  ELSE MrmrRun(c, Append(sel, Best(c, sel)))

\* -iters as given on the command line.
RunIters == {2, RunPairs + 1}

\* The matrices pre-processing may deliver to the script.
RunMatrices == [1..NFrames -> [1..RunPairs -> BinIds]]

RunInit ==
  /\ runPc = "start"
  /\ mat = <<>>
  /\ entropyFile = NoFile
  /\ fileAtStep = NoFile
  /\ entropy_matrix = <<>>

\* A run of the script starts: data is the matrix pre-processing delivers.
RunPreProcess(m) ==
  /\ runPc = "start"
  /\ mat' = m
  /\ runPc' = "entropy"
  /\ UNCHANGED <<entropyFile, fileAtStep, entropy_matrix>>
  /\ UNCHANGED <<xvgVars, ndxVars, pbcVars, mrmrVars>>

\* if os.path.exists(entropy_name): load it; else: compute one entropy per
\* column of data and save the vector.
RunEntropyAlwaysCompute ==
  /\ runPc = "entropy"
  /\ fileAtStep' = entropyFile
  /\ entropy_matrix' = ComputeEntropies(mat)
  /\ entropyFile' = savetxt(entropy_matrix')
  /\ runPc' = "call"
  /\ UNCHANGED mat
  /\ UNCHANGED <<xvgVars, ndxVars, pbcVars, mrmrVars>>
RunEntropyStep ==
  /\ runPc = "entropy"
  /\ fileAtStep' = entropyFile
  /\ IF entropyFile.exists
       THEN /\ entropy_matrix' = loadtxt(entropyFile)
            /\ UNCHANGED entropyFile
       ELSE /\ entropy_matrix' = [i \in 1..n_pairs(mat) |-> entropy(Column(mat, i))]
            /\ entropyFile' = savetxt(entropy_matrix')
  /\ runPc' = "call"
  /\ UNCHANGED mat
  /\ UNCHANGED <<xvgVars, ndxVars, pbcVars, mrmrVars>>

\* raveled_resis = mRMR(mat=data, weights=weights, restrict=restrict,
\*                      iters=iters, H=entropy_matrix, bin_size=bin_size)
\* with the defaults of -w, -restrict and -binsize.
RunMrmr(iters) ==
  /\ runPc = "call"
  /\ mrmrCall' = [mat |-> mat, weights |-> <<1, 0>>, restrict |-> NoRestrict,
                  iters |-> iters, H |-> entropy_matrix, bin_size |-> 2]
  /\ \E res \in {MrmrRun(mrmrCall', <<>>)} :
        /\ mrmrPc' = res.pc
        /\ selected' = res.selected
        /\ mrmrRound' = Len(res.selected)
        /\ mrmrErr' = res.err
        /\ runPc' = IF res.pc = "returned" THEN "done" ELSE "failed"
  /\ UNCHANGED <<mat, entropyFile, fileAtStep, entropy_matrix>>
  /\ UNCHANGED <<xvgVars, ndxVars, pbcVars>>

\* The script is run again in the same directory: a new process, whose
\* variables start afresh; the files stay.
RunAgain ==
  /\ runPc \in {"done", "failed"}
  /\ runPc' = "start"
  /\ mat' = <<>>
  /\ entropy_matrix' = <<>>
  /\ fileAtStep' = NoFile
  /\ mrmrCall' = NoCall
  /\ mrmrPc' = "idle"
  /\ mrmrRound' = 0
  /\ selected' = <<>>
  /\ mrmrErr' = "none"
  /\ UNCHANGED entropyFile
  /\ UNCHANGED <<xvgVars, ndxVars, pbcVars>>

\* Between runs the user deletes or moves the entropy file.
RunDeleteFile ==
  /\ runPc = "start"
  /\ entropyFile.exists
  /\ entropyFile' = NoFile
  /\ UNCHANGED <<runPc, mat, fileAtStep, entropy_matrix>>
  /\ UNCHANGED <<xvgVars, ndxVars, pbcVars, mrmrVars>>

RunNext ==
  \/ \E m \in RunMatrices : RunPreProcess(m)
  \/ RunEntropyStep
  \/ \E iters \in RunIters : RunMrmr(iters)
  \/ RunAgain
  \/ RunDeleteFile

RunStart ==
  /\ RunInit
  /\ MrmrIdle
  /\ XvgIdle
  /\ NdxIdle
  /\ PbcIdle

SpecRun == RunStart /\ [][RunNext]_vars

(***************************************************************************)
(* run_mRMR.py: properties                                                 *)
(***************************************************************************)
\* C9: once a run has called the selector: if the entropy file existed when
\* the run reached the entropy step, the vector passed is the file's content
\* and the file is as it was; if not, the vector passed holds the entropy of
\* each column of the run's matrix and the file holds that vector as written.
C9_EntropyFileReused ==
  runPc \in {"done", "failed"} =>
    IF fileAtStep.exists
      THEN /\ mrmrCall.H = loadtxt(fileAtStep)
           /\ entropyFile = fileAtStep
      ELSE /\ Len(mrmrCall.H) = n_pairs(mat)
           /\ \A i \in 1..n_pairs(mat) : mrmrCall.H[i] = entropy(Column(mat, i))
           /\ entropyFile = savetxt(mrmrCall.H)

\* A later run that reused the file of an earlier one although the entropies
\* of its own matrix differ.
C9_Witness ==
  /\ runPc = "done"
  /\ fileAtStep.exists
  /\ entropyFile = fileAtStep
  /\ mrmrCall.H = fileAtStep.values
  /\ mrmrCall.H # ComputeEntropies(mat)

(***************************************************************************)
(* The whole program: any one of the routines runs                         *)
(***************************************************************************)
Init == XvgStart \/ NdxStart \/ PbcStart \/ MrmrStart \/ RunStart

Next == XvgNext \/ NdxNext \/ PbcNext \/ MrmrNext \/ RunNext

Spec == Init /\ [][Next]_vars

====
